---- MODULE Spec2Model ----
(***************************************************************************)
(* A model of the multi-agent router (src/agents_orchestrator.py) and of   *)
(* the Vertex AI model-call wrapper (src/vertex_ai_provider.py).           *)
(*                                                                         *)
(* Python values are represented as follows.                               *)
(*   - a dict is a function whose DOMAIN is the set of its keys;           *)
(*   - a JSON scalar inside a parsed reply is a pair <<type, text>>, so    *)
(*     that values of different JSON types can be compared;                *)
(*   - a model reply is its raw text; json.loads is the operator JsonLoads *)
(*     that parses the raw texts the model can return.                     *)
(***************************************************************************)
EXTENDS Integers, Sequences, FiniteSets, TLC

VARIABLES
    status,     \* position of MultiAgentOrchestrator.run: idle, running, returned, raised
    cur,        \* node the graph executes next ("" when no run is in progress)
    state,      \* the shared AgentState of the run in progress
    result,     \* the dict run returned (NoResult before the first return)
    trace,      \* observation: the llm.invoke calls of the run (prompt and outcome), in order
    input,      \* observation: the user_input of the run
    p_status,   \* VertexAIProvider.generate_response: ready, returned, raised
    p_args,     \* the arguments of the generate_response call
    p_ext,      \* observation: what the Vertex AI SDK did during the call
    p_result,   \* the dict generate_response returned
    p_calls,    \* the generate_content calls made, with their arguments
    h_text,     \* the string given to the Hebrew helpers
    h_detect_p, \* <<b>> once VertexAIProvider._contains_hebrew returned b, else <<>>
    h_detect_d, \* <<b>> once DifyVertexAIIntegration._contains_hebrew returned b
    h_enhanced, \* <<s>> once _prepare_hebrew_prompt returned s
    f_messages, \* the message list given to _messages_to_prompt
    f_prompt,   \* <<s>> once _messages_to_prompt returned s
    d_provider, \* DifyVertexAIIntegration.vertex_provider (NoProvider for None)
    d_status,   \* the last integration call: idle, returned, raised
    d_op,       \* observation: the last integration call, its arguments and SDK behaviour
    d_result,   \* what the last integration call returned or raised
    d_calls,    \* the generate_content calls of the last integration call
    d_last_init, \* observation: <<b>> once initialize_provider returned b, last call wins
    v_found,    \* what the five validators of validate_implementation find
    v_report,   \* the report of generate_validation_report, NoResult before
    v_exit      \* <<code>> once main returned code

routerVars == <<status, cur, state, result, trace, input>>
providerVars == <<p_status, p_args, p_ext, p_result, p_calls>>
hebrewVars == <<h_text, h_detect_p, h_detect_d, h_enhanced>>
flattenVars == <<f_messages, f_prompt>>
difyVars == <<d_provider, d_status, d_op, d_result, d_calls, d_last_init>>
validateVars == <<v_found, v_report, v_exit>>
vars == <<routerVars, providerVars, hebrewVars, flattenVars, difyVars, validateVars>>

(***************************** bounds *************************************)
\* Steps explored per run.  The code itself has no such bound.
MaxSteps == 4

(************************** JSON values ***********************************)
Str(s) == <<"str", s>>
JTrue == <<"bool", "true">>
JFalse == <<"bool", "false">>
EmptyList == <<"list", "[]">>
SomeList == <<"list", "[\"t1\"]">>

\* Python truthiness of a JSON value.
Truthy(v) == v \notin {JFalse, Str(""), EmptyList, <<"null", "">>, <<"num", "0">>}

EmptyDict == [k \in {} |-> JFalse]

\* No dict at all: what a call that has not returned has produced.
NoResult == [k \in {} |-> JFalse]

\* dict.get(key, default)
Get(d, k, default) == IF k \in DOMAIN d THEN d[k] ELSE default

\* {**d, k: v}
Put(d, k, v) == [x \in DOMAIN d \cup {k} |-> IF x = k THEN v ELSE d[x]]

(*************************** model replies ********************************)
R_TEXT == "not json"
R_EMPTY == ""
R_LIST == "[1, 2]"
R_OBJ == "{}"
R_APPROVED == "{\"approved\": true}"
R_APPROVED_PLANNER == "{\"approved\": true, \"next_agent\": \"planner\"}"
R_REJECTED_CODER == "{\"approved\": false, \"next_agent\": \"coder\"}"
R_CODER == "{\"next_agent\": \"coder\"}"
R_REVIEWER == "{\"next_agent\": \"reviewer\"}"
R_PLANNER == "{\"next_agent\": \"planner\"}"
R_END == "{\"next_agent\": \"END\"}"
R_BOGUS == "{\"next_agent\": \"tester\"}"
R_NO_AGENT == "{\"next_agent\": \"\"}"
R_PLAN == "{\"plan\": [\"t1\"], \"next_agent\": \"researcher\", \"instructions\": \"t1\"}"

\* The raw texts llm.invoke can return as response.content.
R_NULL == "null"
R_NUMBER == "42"

RawReplies ==
    {R_TEXT, R_EMPTY, R_LIST, R_NULL, R_NUMBER, R_OBJ, R_APPROVED, R_APPROVED_PLANNER,
     R_REJECTED_CODER, R_CODER, R_REVIEWER, R_PLANNER, R_END, R_BOGUS, R_NO_AGENT,
     R_PLAN}

\* The messages of the exceptions llm.invoke can raise.
LlmErrors == {"api error"}

\* What llm.invoke can do: return a reply or raise.
LlmOutcomes ==
    [kind : {"reply"}, content : RawReplies] \cup [kind : {"raise"}, content : LlmErrors]

\* json.loads(text): kind is "invalid" when json.loads raises, "object" when
\* it returns a dict (obj), "other" when it returns any other JSON value.
JsonLoads(text) ==
    CASE text = R_TEXT -> [kind |-> "invalid", obj |-> EmptyDict]
      [] text = R_EMPTY -> [kind |-> "invalid", obj |-> EmptyDict]
      [] text = R_LIST -> [kind |-> "other", obj |-> EmptyDict]
      [] text = R_NULL -> [kind |-> "other", obj |-> EmptyDict]
      [] text = R_NUMBER -> [kind |-> "other", obj |-> EmptyDict]
      [] text = R_OBJ -> [kind |-> "object", obj |-> EmptyDict]
      [] text = R_APPROVED -> [kind |-> "object", obj |-> [approved |-> JTrue]]
      [] text = R_APPROVED_PLANNER ->
            [kind |-> "object", obj |-> [approved |-> JTrue, next_agent |-> Str("planner")]]
      [] text = R_REJECTED_CODER ->
            [kind |-> "object", obj |-> [approved |-> JFalse, next_agent |-> Str("coder")]]
      [] text = R_CODER -> [kind |-> "object", obj |-> [next_agent |-> Str("coder")]]
      [] text = R_REVIEWER -> [kind |-> "object", obj |-> [next_agent |-> Str("reviewer")]]
      [] text = R_PLANNER -> [kind |-> "object", obj |-> [next_agent |-> Str("planner")]]
      [] text = R_END -> [kind |-> "object", obj |-> [next_agent |-> Str("END")]]
      [] text = R_BOGUS -> [kind |-> "object", obj |-> [next_agent |-> Str("tester")]]
      [] text = R_NO_AGENT -> [kind |-> "object", obj |-> [next_agent |-> Str("")]]
      [] text = R_PLAN ->
            [kind |-> "object",
             obj |-> [plan |-> SomeList, next_agent |-> Str("researcher"),
                      instructions |-> Str("t1")]]

\* The try block of a handler completes only when json.loads returned a dict:
\* json.loads raising, and result.get on a non-dict, both reach the bare except.
\* The try block completing for every reply json.loads accepts.
ParsedAsAnyJson(text) == JsonLoads(text).kind # "invalid"

ParsedAsDict(text) == JsonLoads(text).kind = "object"

(****************************** messages **********************************)
HumanMessage(content) == [role |-> "human", content |-> content]
AIMessage(content) == [role |-> "ai", content |-> content]

(******************************* agents ***********************************)
\* self.agents: the registry of step names.
Agents == {"planner", "researcher", "coder", "reviewer"}

\* planner_logic that also empties completed_tasks when it has a new plan.
planner_logic_resets_tasks(st, content) ==
    LET parsed == JsonLoads(content) IN
    IF ParsedAsDict(content)
    THEN [messages |-> Append(st.messages, AIMessage(content)),
          current_task |-> Get(parsed.obj, "instructions", Str("")),
          completed_tasks |-> <<>>,
          next_agent |-> Get(parsed.obj, "next_agent", Str("researcher")),
          context |-> Put(st.context, "plan", Get(parsed.obj, "plan", EmptyList))]
    ELSE [messages |-> Append(st.messages, AIMessage(content)),
          next_agent |-> Str("researcher"),
          context |-> st.context]

\* planner_logic that keeps the current task when the reply has no instructions.
planner_logic_keeps_task(st, content) ==
    LET parsed == JsonLoads(content) IN
    IF ParsedAsDict(content)
    THEN [messages |-> Append(st.messages, AIMessage(content)),
          current_task |-> Get(parsed.obj, "instructions", st.current_task),
          next_agent |-> Get(parsed.obj, "next_agent", Str("researcher")),
          context |-> Put(st.context, "plan", Get(parsed.obj, "plan", EmptyList))]
    ELSE [messages |-> Append(st.messages, AIMessage(content)),
          next_agent |-> Str("researcher"),
          context |-> st.context]

planner_logic(st, content) ==
    LET parsed == JsonLoads(content) IN
    IF ParsedAsDict(content)
    THEN [messages |-> Append(st.messages, AIMessage(content)),
          current_task |-> Get(parsed.obj, "instructions", Str("")),
          next_agent |-> Get(parsed.obj, "next_agent", Str("researcher")),
          context |-> Put(st.context, "plan", Get(parsed.obj, "plan", EmptyList))]
    ELSE [messages |-> Append(st.messages, AIMessage(content)),
          next_agent |-> Str("researcher"),
          context |-> st.context]

researcher_logic(st, content) ==
    LET parsed == JsonLoads(content) IN
    IF ParsedAsDict(content)
    THEN [messages |-> Append(st.messages, AIMessage(content)),
          completed_tasks |-> Append(st.completed_tasks, st.current_task),
          next_agent |-> Get(parsed.obj, "next_agent", Str("coder")),
          context |-> Put(st.context, "research", parsed.obj)]
    ELSE [messages |-> Append(st.messages, AIMessage(content)),
          next_agent |-> Str("coder"),
          context |-> st.context]

coder_logic(st, content) ==
    LET parsed == JsonLoads(content) IN
    IF ParsedAsDict(content)
    THEN [messages |-> Append(st.messages, AIMessage(content)),
          completed_tasks |-> Append(st.completed_tasks, st.current_task),
          next_agent |-> Get(parsed.obj, "next_agent", Str("reviewer")),
          context |-> Put(st.context, "code", parsed.obj)]
    ELSE [messages |-> Append(st.messages, AIMessage(content)),
          next_agent |-> Str("reviewer"),
          context |-> st.context]

\* reviewer_logic with the parse-failure fallback sending the run back to planner.
reviewer_logic_fallback_planner(st, content) ==
    LET parsed == JsonLoads(content)
        next_step == IF Truthy(Get(parsed.obj, "approved", JFalse))
                     THEN Str("END")
                     ELSE Get(parsed.obj, "next_agent", Str("planner"))
    IN
    IF ParsedAsDict(content)
    THEN [messages |-> Append(st.messages, AIMessage(content)),
          completed_tasks |-> Append(st.completed_tasks, Str("review")),
          next_agent |-> next_step,
          context |-> Put(st.context, "review", parsed.obj)]
    ELSE [messages |-> Append(st.messages, AIMessage(content)),
          next_agent |-> Str("planner"),
          context |-> st.context]

\* reviewer_logic that never reads approved.
reviewer_logic_ignores_approved(st, content) ==
    LET parsed == JsonLoads(content)
        next_step == Get(parsed.obj, "next_agent", Str("planner"))
    IN
    IF ParsedAsDict(content)
    THEN [messages |-> Append(st.messages, AIMessage(content)),
          completed_tasks |-> Append(st.completed_tasks, Str("review")),
          next_agent |-> next_step,
          context |-> Put(st.context, "review", parsed.obj)]
    ELSE [messages |-> Append(st.messages, AIMessage(content)),
          next_agent |-> Str("END"),
          context |-> st.context]

\* reviewer_logic where a next_agent in the reply takes precedence over approved.
reviewer_logic_next_agent_first(st, content) ==
    LET parsed == JsonLoads(content)
        next_step == IF "next_agent" \in DOMAIN parsed.obj
                     THEN parsed.obj["next_agent"]
                     ELSE IF Truthy(Get(parsed.obj, "approved", JFalse))
                          THEN Str("END")
                          ELSE Str("planner")
    IN
    IF ParsedAsDict(content)
    THEN [messages |-> Append(st.messages, AIMessage(content)),
          completed_tasks |-> Append(st.completed_tasks, Str("review")),
          next_agent |-> next_step,
          context |-> Put(st.context, "review", parsed.obj)]
    ELSE [messages |-> Append(st.messages, AIMessage(content)),
          next_agent |-> Str("END"),
          context |-> st.context]

\* reviewer_logic whose next_agent defaults to END when the reply has none.
reviewer_logic_default_end(st, content) ==
    LET parsed == JsonLoads(content)
        next_step == IF Truthy(Get(parsed.obj, "approved", JFalse))
                     THEN Str("END")
                     ELSE Get(parsed.obj, "next_agent", Str("END"))
    IN
    IF ParsedAsDict(content)
    THEN [messages |-> Append(st.messages, AIMessage(content)),
          completed_tasks |-> Append(st.completed_tasks, Str("review")),
          next_agent |-> next_step,
          context |-> Put(st.context, "review", parsed.obj)]
    ELSE [messages |-> Append(st.messages, AIMessage(content)),
          next_agent |-> Str("END"),
          context |-> st.context]

reviewer_logic(st, content) ==
    LET parsed == JsonLoads(content)
        next_step == IF Truthy(Get(parsed.obj, "approved", JFalse))
                     THEN Str("END")
                     ELSE Get(parsed.obj, "next_agent", Str("planner"))
    IN
    IF ParsedAsDict(content)
    THEN [messages |-> Append(st.messages, AIMessage(content)),
          completed_tasks |-> Append(st.completed_tasks, Str("review")),
          next_agent |-> next_step,
          context |-> Put(st.context, "review", parsed.obj)]
    ELSE [messages |-> Append(st.messages, AIMessage(content)),
          next_agent |-> Str("END"),
          context |-> st.context]

\* The human turn a handler sends to the model with its system prompt: the
\* planner sends the history (role human or assistant for each message), the
\* others one message made of a fixed prefix and a field of the state.
AgentPrompt(a, st) ==
    CASE a = "planner" ->
            [prefix |-> "",
             arg |-> [i \in 1..Len(st.messages) |->
                        [role |-> IF st.messages[i].role = "human"
                                  THEN "human" ELSE "assistant",
                         content |-> st.messages[i].content]]]
      [] a = "researcher" -> [prefix |-> "חקור: ", arg |-> st.current_task]
      [] a = "coder" -> [prefix |-> "כתוב קוד עבור: ", arg |-> st.current_task]
      [] a = "reviewer" -> [prefix |-> "בדוק: ", arg |-> Get(st, "context", EmptyDict)]

\* The handler registered under a name.
AgentLogic(a, st, content) ==
    CASE a = "planner" -> planner_logic(st, content)
      [] a = "researcher" -> researcher_logic(st, content)
      [] a = "coder" -> coder_logic(st, content)
      [] a = "reviewer" -> reviewer_logic(st, content)

(****************************** workflow **********************************)
\* langgraph.graph.END, the framework's terminal node.  It is the sentinel
\* "__end__", not the string "END" that the handlers store in next_agent
\* and that the path map uses as a key.
END == "__end__"

\* The graph merges a handler's partial update into the state: a key of the
\* update replaces the state's value, every other key keeps its value.
MergeUpdate(st, upd) == [k \in DOMAIN st |-> IF k \in DOMAIN upd THEN upd[k] ELSE st[k]]

\* next_agent in self.agents
IsRegistered(sel) == sel[1] = "str" /\ sel[2] \in Agents

\* route_next with a step limit: it stops the run once three replies are in the history.
route_next_step_limit(st) ==
    LET next_agent == Get(st, "next_agent", Str("END")) IN
    IF IsRegistered(next_agent) /\ Len(st.messages) <= 3 THEN next_agent[2] ELSE END

\* route_next that falls back to the entry point instead of END.
route_next_default_planner(st) ==
    LET next_agent == Get(st, "next_agent", Str("END")) IN
    IF IsRegistered(next_agent) THEN next_agent[2] ELSE "planner"

route_next(st) ==
    LET next_agent == Get(st, "next_agent", Str("END")) IN
    IF IsRegistered(next_agent) THEN next_agent[2] ELSE END

\* The path map handed to add_conditional_edges for every agent:
\* {name: name for name in self.agents.keys()} | {"END": END}
PathMap == [k \in Agents \cup {"END"} |-> IF k = "END" THEN END ELSE k]

\* str(KeyError(key))
KeyErrorText(key) == IF key = END THEN "'__end__'" ELSE "'?'"

\* The conditional edge after a node: the router's answer is looked up in
\* the path map; a missing key raises KeyError out of workflow.invoke.
\* kind is "goto" (dest is the next node), "finish" or "raise".
ConditionalEdge(st) ==
    LET r == route_next(st) IN
    IF r \notin DOMAIN PathMap
    THEN [kind |-> "raise", dest |-> "", error |-> KeyErrorText(r)]
    ELSE IF PathMap[r] = END
         THEN [kind |-> "finish", dest |-> "", error |-> ""]
         ELSE [kind |-> "goto", dest |-> PathMap[r], error |-> ""]

(***************************************************************************)
(*              VertexAIProvider (src/vertex_ai_provider.py)               *)
(*                                                                         *)
(* A Python str is the sequence of its code points; None is PyNone.        *)
(* A temperature is counted in tenths, top_p in hundredths.                *)
(***************************************************************************)
PyNone == <<-1>>

\* hebrew_instructions, lines 80-82
hebrew_instructions ==
    <<1488, 1504, 1488, 32, 1492, 1513, 1489, 32, 1489, 1506, 1489, 1512, 1497,
      1514, 32, 1489, 1510, 1493, 1512, 1492, 32, 1489, 1512, 1493, 1512, 1492,
      32, 1493, 1502, 1491, 1493, 1497, 1511, 1514, 46, 32, 10, 1513, 1497, 1501,
      32, 1500, 1489, 32, 1500, 1499, 1497, 1493, 1493, 1504, 1497, 1493, 1514,
      32, 1492, 1496, 1511, 1505, 1496, 32, 40, 82, 84, 76, 41, 32, 1493, 1500,
      1514, 1511, 1497, 1504, 1493, 1514, 32, 1492, 1491, 1511, 1491, 1493, 1511,
      32, 1492, 1506, 1489, 1512, 1497, 46, 10>>

\* The range test with strict comparisons: U+0590 and U+05FF are left out.
IsHebrewCharExclusive(c) == 1424 < c /\ c < 1535

\* '֐' <= char <= '׿'
IsHebrewChar(c) == 1424 <= c /\ c <= 1535

contains_hebrew(text) == \E i \in 1..Len(text) : IsHebrewChar(text[i])

\* _prepare_hebrew_prompt that appends the instructions whatever the prompt holds.
prepare_hebrew_prompt_always_append(prompt) == prompt \o <<10, 10>> \o hebrew_instructions

\* _prepare_hebrew_prompt that leaves the prompt out of the Hebrew branch.
prepare_hebrew_prompt_drops_prompt(prompt) ==
    LET has_hebrew == \E i \in 1..Len(prompt) : IsHebrewChar(prompt[i]) IN
    IF has_hebrew
    THEN hebrew_instructions \o <<10, 10>>
    ELSE prompt \o <<10, 10>> \o hebrew_instructions

prepare_hebrew_prompt(prompt) ==
    LET has_hebrew == \E i \in 1..Len(prompt) : IsHebrewChar(prompt[i]) IN
    IF has_hebrew
    THEN hebrew_instructions \o <<10, 10>> \o prompt
    ELSE prompt \o <<10, 10>> \o hebrew_instructions

\* The characters str.split() separates words at.
IsSpace(c) == c \in {9, 10, 11, 12, 13, 28, 29, 30, 31, 32, 133, 160}

\* len(text.split()): the number of maximal runs of non-space characters.
WordCount(text) ==
    Cardinality({i \in 1..Len(text) :
                    ~IsSpace(text[i]) /\ (i = 1 \/ IsSpace(text[i - 1]))})

\* min replaced by its first argument: the requested value is not clamped.
MinUnclamped(a, b) == a

Min(a, b) == IF a <= b THEN a ELSE b

\* self.available_models, lines 47-62
available_models ==
    [x \in {"gemini-pro", "gemini-flash"} |->
        IF x = "gemini-pro"
        THEN [name |-> "Gemini Pro", model_id |-> "gemini-1.5-pro",
              max_tokens |-> 8192, supports_hebrew |-> TRUE]
        ELSE [name |-> "Gemini Flash", model_id |-> "gemini-1.5-flash",
              max_tokens |-> 8192, supports_hebrew |-> TRUE]]

\* top_p (hundredths) and top_k of the generation configuration
TopP == 95
TopK == 40

\* The ValueError message for a model name outside the registry.
UnknownModelText(model_name) ==
    CASE model_name = "gpt-4" ->
            "Model gpt-4 not available. Choose from: ['gemini-pro', 'gemini-flash']"
      [] model_name = "gemini-ultra" ->
            "Model gemini-ultra not available. Choose from: ['gemini-pro', 'gemini-flash']"
      [] OTHER -> "Model ? not available. Choose from: ['gemini-pro', 'gemini-flash']"

\* The except clause, lines 162-169.
FailureRecord(e, model_name) ==
    [success |-> FALSE, error |-> e, model |-> model_name, response |-> PyNone]

\* generate_response whose try block starts only at the generate_content call.
generate_response_late_try(prompt, model_name, max_tokens, temperature, enable_hebrew, ext) ==
    IF model_name \notin DOMAIN available_models
    THEN [status |-> "raised", result |-> NoResult, calls |-> <<>>]
    ELSE
    LET model_config == available_models[model_name]
        model_id == model_config.model_id
        enhanced_prompt == IF enable_hebrew THEN prepare_hebrew_prompt(prompt) ELSE prompt
        generation_config ==
            [max_output_tokens |-> Min(max_tokens, model_config.max_tokens),
             temperature |-> temperature, top_p |-> TopP, top_k |-> TopK]
        call == [model_id |-> model_id, prompt |-> enhanced_prompt,
                 generation_config |-> generation_config]
        response_text == IF ext.text # PyNone /\ ext.text # <<>> THEN ext.text ELSE <<>>
    IN
    IF ext.at = "ctor"
    THEN [status |-> "raised", result |-> NoResult, calls |-> <<>>]
    ELSE IF ext.at \in {"generate", "text"}
    THEN [status |-> "returned", result |-> FailureRecord(ext.error, model_name),
          calls |-> <<call>>]
    ELSE [status |-> "returned",
          result |->
            [success |-> TRUE, response |-> response_text, model |-> model_name,
             model_id |-> model_id, tokens_used |-> WordCount(response_text),
             supports_hebrew |-> model_config.supports_hebrew,
             metadata |-> [temperature |-> temperature, max_tokens |-> max_tokens]],
          calls |-> <<call>>]

\* generate_response that uses gemini-pro for a model name outside the registry.
generate_response_default_model(prompt, model_name, max_tokens, temperature, enable_hebrew, ext) ==
    LET model_config == IF model_name \in DOMAIN available_models
                        THEN available_models[model_name]
                        ELSE available_models["gemini-pro"]
        model_id == model_config.model_id
        enhanced_prompt == IF enable_hebrew THEN prepare_hebrew_prompt(prompt) ELSE prompt
        generation_config ==
            [max_output_tokens |-> Min(max_tokens, model_config.max_tokens),
             temperature |-> temperature, top_p |-> TopP, top_k |-> TopK]
        call == [model_id |-> model_id, prompt |-> enhanced_prompt,
                 generation_config |-> generation_config]
        response_text == IF ext.text # PyNone /\ ext.text # <<>> THEN ext.text ELSE <<>>
    IN
    IF ext.at = "ctor"
    THEN [status |-> "returned", result |-> FailureRecord(ext.error, model_name),
          calls |-> <<>>]
    ELSE IF ext.at \in {"generate", "text"}
    THEN [status |-> "returned", result |-> FailureRecord(ext.error, model_name),
          calls |-> <<call>>]
    ELSE [status |-> "returned",
          result |->
            [success |-> TRUE, response |-> response_text, model |-> model_name,
             model_id |-> model_id, tokens_used |-> WordCount(response_text),
             supports_hebrew |-> model_config.supports_hebrew,
             metadata |-> [temperature |-> temperature, max_tokens |-> max_tokens]],
          calls |-> <<call>>]

\* generate_response, lines 93-169.  ext says what the SDK does during the call:
\* ext.at is where it raises ("ctor": GenerativeModel(model_id), "generate":
\* generate_content, "text": reading response.text, "none": nowhere), ext.error
\* the exception's message, ext.text the value of response.text.
generate_response(prompt, model_name, max_tokens, temperature, enable_hebrew, ext) ==
    IF model_name \notin DOMAIN available_models
    THEN [status |-> "returned",
          result |-> FailureRecord(UnknownModelText(model_name), model_name),
          calls |-> <<>>]
    ELSE
    LET model_config == available_models[model_name]
        model_id == model_config.model_id
        enhanced_prompt == IF enable_hebrew THEN prepare_hebrew_prompt(prompt) ELSE prompt
        generation_config ==
            [max_output_tokens |-> Min(max_tokens, model_config.max_tokens),
             temperature |-> temperature, top_p |-> TopP, top_k |-> TopK]
        call == [model_id |-> model_id, prompt |-> enhanced_prompt,
                 generation_config |-> generation_config]
        response_text == IF ext.text # PyNone /\ ext.text # <<>> THEN ext.text ELSE <<>>
    IN
    IF ext.at = "ctor"
    THEN [status |-> "returned", result |-> FailureRecord(ext.error, model_name),
          calls |-> <<>>]
    ELSE IF ext.at \in {"generate", "text"}
    THEN [status |-> "returned", result |-> FailureRecord(ext.error, model_name),
          calls |-> <<call>>]
    ELSE [status |-> "returned",
          result |->
            [success |-> TRUE, response |-> response_text, model |-> model_name,
             model_id |-> model_id, tokens_used |-> WordCount(response_text),
             supports_hebrew |-> model_config.supports_hebrew,
             metadata |-> [temperature |-> temperature, max_tokens |-> max_tokens]],
          calls |-> <<call>>]

\* The arguments and SDK behaviours explored.
Prompts == {<<>>, <<72, 105>>, <<1513, 1500, 1493, 1501>>, <<72, 105, 32, 1513>>}
ModelNames == {"gemini-pro", "gemini-flash", "gpt-4", "gemini-ultra"}
MaxTokensValues == {0, 1, 1024, 8192, 8193}
Temperatures == {-5, 0, 7, 10, 15}
Responses == {<<>>, <<111, 107>>, <<1513, 1500, 1493, 1501, 32, 1506, 1493, 1500, 1501>>}
ApiErrors == {"403 permission denied", "429 quota exceeded"}

ExtOutcomes ==
    [at : {"ctor", "generate", "text"}, error : ApiErrors, text : {PyNone}]
        \cup [at : {"none"}, error : {""}, text : Responses \cup {PyNone}]

GenerateArgs ==
    [prompt : Prompts, model_name : ModelNames, max_tokens : MaxTokensValues,
     temperature : Temperatures, enable_hebrew : BOOLEAN]

NoExt == [at |-> "none", error |-> "", text |-> PyNone]
NoArgs ==
    [prompt |-> <<>>, model_name |-> "gemini-pro", max_tokens |-> 1024,
     temperature |-> 7, enable_hebrew |-> TRUE]

\* No generate_response call is in progress or was made.
ProviderIdle ==
    /\ p_status = "idle"
    /\ p_args = NoArgs
    /\ p_ext = NoExt
    /\ p_result = NoResult
    /\ p_calls = <<>>

\* DifyVertexAIIntegration._contains_hebrew, lines 386-388
dify_contains_hebrew(text) == \E i \in 1..Len(text) : 1424 <= text[i] /\ text[i] <= 1535

\* The Hebrew helpers were not called.
HebrewIdle ==
    /\ h_text = <<>>
    /\ h_detect_p = <<>>
    /\ h_detect_d = <<>>
    /\ h_enhanced = <<>>

\* _messages_to_prompt was not called.
FlattenIdle ==
    /\ f_messages = <<>>
    /\ f_prompt = <<>>

\* self.vertex_provider = None
NoProvider == [k \in {} |-> JFalse]

\* A DifyVertexAIIntegration on which nothing was called yet.
DifyIdle ==
    /\ d_provider = NoProvider
    /\ d_status = "idle"
    /\ d_op = [name |-> "none"]
    /\ d_result = NoResult
    /\ d_calls = <<>>
    /\ d_last_init = <<>>

\* Nothing was looked at yet.
NoFindings == [k \in {} |-> FALSE]

\* validate_implementation was not run.
ValidateIdle ==
    /\ v_found = NoFindings
    /\ v_report = NoResult
    /\ v_exit = <<>>

(********************************* run ************************************)
\* The user inputs explored.
Inputs == {"write a fibonacci function", ""}

initial_state(user_input) ==
    [messages |-> <<HumanMessage(user_input)>>,
     current_task |-> Str(user_input),
     completed_tasks |-> <<>>,
     context |-> EmptyDict,
     next_agent |-> Str("planner")]

\* f"שגיאה: {str(e)}"
ErrorText(e) ==
    CASE e = "api error" -> "שגיאה: api error"
      [] e = "'__end__'" -> "שגיאה: '__end__'"
      [] OTHER -> "שגיאה: ?"

\* run, lines 246-248: workflow.invoke returned its final state.
run_return(final) == [status |-> "returned", result |-> final]

\* run without its except clause: the exception leaves run.
run_except_reraise(e) == [status |-> "raised", result |-> NoResult]

\* run whose except clause also returns an empty context and task list.
run_except_with_context(e) ==
    [status |-> "returned",
     result |-> [error |-> e, messages |-> <<AIMessage(ErrorText(e))>>,
                 completed_tasks |-> <<>>, context |-> EmptyDict]]

\* run, lines 249-253: workflow.invoke raised an Exception with message e.
run_except(e) ==
    [status |-> "returned",
     result |-> [error |-> e, messages |-> <<AIMessage(ErrorText(e))>>]]

\* How run ends when the graph stops after a node: normally or by an exception.
RunEnd(edge, st) == IF edge.kind = "raise" THEN run_except(edge.error) ELSE run_return(st)

\* No run was started.
RouterIdle ==
    /\ status = "idle"
    /\ cur = ""
    /\ state = initial_state("")
    /\ result = NoResult
    /\ trace = <<>>
    /\ input = ""

Init ==
    /\ RouterIdle
    /\ ProviderIdle
    /\ HebrewIdle
    /\ FlattenIdle
    /\ DifyIdle
    /\ ValidateIdle

\* run(user_input) up to the graph's entry point.
Run ==
    /\ status \in {"idle", "returned", "raised"}
    /\ \E user_input \in Inputs :
        /\ input' = user_input
        /\ state' = initial_state(user_input)
    /\ status' = "running"
    /\ cur' = "planner"
    /\ result' = NoResult
    /\ trace' = <<>>
    /\ UNCHANGED <<providerVars, hebrewVars, flattenVars, difyVars, validateVars>>

\* One node of the graph, given what its model call did: the handler, its
\* update merged into the state, the conditional edge, and the end of run
\* when the graph stops.  An exception of llm.invoke leaves the handler and
\* workflow.invoke and reaches the except clause of run.
Step(a, out) ==
    /\ trace' = Append(trace, [agent |-> a, kind |-> out.kind, content |-> out.content,
                                prompt |-> AgentPrompt(a, state)])
    /\ IF out.kind = "raise"
       THEN LET end == run_except(out.content) IN
            /\ state' = state
            /\ status' = end.status
            /\ result' = end.result
            /\ cur' = ""
       ELSE LET st == MergeUpdate(state, AgentLogic(a, state, out.content))
                edge == ConditionalEdge(st)
                end == RunEnd(edge, st)
            IN
            /\ state' = st
            /\ IF edge.kind = "goto"
               THEN /\ status' = "running"
                    /\ cur' = edge.dest
                    /\ result' = result
               ELSE /\ status' = end.status
                    /\ cur' = ""
                    /\ result' = end.result
    /\ UNCHANGED <<input, providerVars, hebrewVars, flattenVars, difyVars, validateVars>>

\* The graph may execute node a.
AtNode(a) == status = "running" /\ cur = a /\ Len(trace) < MaxSteps

PlannerStep ==
    /\ AtNode("planner")
    /\ \E out \in LlmOutcomes : Step("planner", out)

ResearcherStep ==
    /\ AtNode("researcher")
    /\ \E out \in LlmOutcomes : Step("researcher", out)

CoderStep ==
    /\ AtNode("coder")
    /\ \E out \in LlmOutcomes : Step("coder", out)

ReviewerStep ==
    /\ AtNode("reviewer")
    /\ \E out \in LlmOutcomes : Step("reviewer", out)

Next ==
    \/ Run
    \/ PlannerStep
    \/ ResearcherStep
    \/ CoderStep
    \/ ReviewerStep

Spec == Init /\ [][Next]_vars

(***************************************************************************)
(*                     Properties of the router                            *)
(***************************************************************************)
Started == status # "idle"

\* The agents of the executed steps, in execution order.
TraceAgents == [i \in 1..Len(trace) |-> trace[i].agent]

\* No model call of the run raised.
NoLlmRaise == \A i \in 1..Len(trace) : trace[i].kind = "reply"

\* The raw replies the model returned, in execution order.
RECURSIVE RepliesOf(_)
RepliesOf(t) ==
    IF t = <<>> THEN <<>>
    ELSE LET rest == RepliesOf(SubSeq(t, 1, Len(t) - 1))
             last == t[Len(t)]
         IN IF last.kind = "reply" THEN Append(rest, AIMessage(last.content)) ELSE rest

\* The fixed default successors, and the single pass they make.
DefaultOrder == <<"planner", "researcher", "coder", "reviewer">>

DefaultSuccessor(a) ==
    CASE a = "planner" -> "researcher"
      [] a = "researcher" -> "coder"
      [] a = "coder" -> "reviewer"
      [] a = "reviewer" -> "END"

\* The run is one pass along DefaultOrder: k <= 4 steps executed in that order,
\* none twice, the run over exactly when the fourth has been executed.
OnePassThenStop ==
    /\ Len(trace) <= Len(DefaultOrder)
    /\ TraceAgents = SubSeq(DefaultOrder, 1, Len(trace))
    /\ IF Len(trace) = Len(DefaultOrder)
       THEN status = "returned" /\ cur = ""
       ELSE status = "running" /\ cur = DefaultOrder[Len(trace) + 1]

AllRepliesInvalidJson ==
    \A i \in 1..Len(trace) :
        trace[i].kind = "reply" /\ JsonLoads(trace[i].content).kind = "invalid"

\* C1: in a run where every model reply is not valid JSON, the steps executed
\* are planner, researcher, coder, reviewer, once each and in that order, and
\* the run is over after the reviewer.
C1_RouterFallback == (Started /\ AllRepliesInvalidJson) => OnePassThenStop

C1_Witness ==
    status = "returned" /\ Len(trace) = 4 /\ AllRepliesInvalidJson
    /\ TraceAgents = DefaultOrder

\* The reply keeps a non-review step on its default successor.
KeepsDefault(a, content) ==
    \/ ~ParsedAsDict(content)
    \/ Get(JsonLoads(content).obj, "next_agent", Str(DefaultSuccessor(a)))
         = Str(DefaultSuccessor(a))

ApprovingScript ==
    \A i \in 1..Len(trace) :
        /\ trace[i].kind = "reply"
        /\ IF trace[i].agent = "reviewer"
           THEN trace[i].content = R_APPROVED
           ELSE KeepsDefault(trace[i].agent, trace[i].content)

\* C2: when the reply at review is {"approved": true} and the replies at the
\* other steps keep the default successor, the run is over after exactly one
\* pass planner, researcher, coder, reviewer: four steps, none twice.
C2_RouterTermination == (Started /\ ApprovingScript) => OnePassThenStop

C2_Witness ==
    /\ status = "returned"
    /\ Len(trace) = 4
    /\ \A i \in 1..Len(trace) : trace[i].kind = "reply" /\ trace[i].content = R_APPROVED
    /\ TraceAgents = DefaultOrder

\* Step i is a review whose reply parsed as an object with approved true.
ApprovedAt(i) ==
    /\ trace[i].agent = "reviewer"
    /\ trace[i].kind = "reply"
    /\ ParsedAsDict(trace[i].content)
    /\ Get(JsonLoads(trace[i].content).obj, "approved", JFalse) = JTrue

\* C3: a review whose reply parses as an object with approved true is the
\* last step of the run: the selector it leaves is "END", the router answers
\* END and no step follows, whatever next_agent the reply carries.
C3_ApprovedOverrides ==
    \A i \in 1..Len(trace) :
        ApprovedAt(i) =>
            /\ i = Len(trace)
            /\ status = "returned"
            /\ state.next_agent = Str("END")
            /\ route_next(state) = END

C3_Witness ==
    /\ status = "returned"
    /\ Len(trace) > 0
    /\ ApprovedAt(Len(trace))
    /\ trace[Len(trace)].content = R_APPROVED_PLANNER

\* Step i proposed a registered successor, and did not approve if it is a review.
ProposesRegisteredAt(i) ==
    /\ trace[i].kind = "reply"
    /\ ParsedAsDict(trace[i].content)
    /\ "next_agent" \in DOMAIN JsonLoads(trace[i].content).obj
    /\ IsRegistered(JsonLoads(trace[i].content).obj["next_agent"])
    /\ ~ApprovedAt(i)

AlwaysProposesRegistered == \A i \in 1..Len(trace) : ProposesRegisteredAt(i)

C5_HistoryAppendOnly ==
    Started =>
        /\ state.messages = <<HumanMessage(input)>> \o RepliesOf(trace)
        /\ (status = "returned" /\ NoLlmRaise) =>
              /\ "messages" \in DOMAIN result
              /\ result["messages"] = <<HumanMessage(input)>> \o RepliesOf(trace)

\* What holds of the code for C5: the history of the graph's state.
StateHistoryAppendOnly ==
    Started => state.messages = <<HumanMessage(input)>> \o RepliesOf(trace)

\* C6: after a step the next step is the state's next_agent exactly when that
\* names a registered agent; every other selector ends the run.  The step
\* executed next is always registered.
C6_RouterDispatch ==
    /\ \A i \in 1..Len(trace) : trace[i].agent \in Agents
    /\ status = "running" => cur \in Agents
    /\ (Len(trace) > 0 /\ NoLlmRaise) =>
          IF IsRegistered(state.next_agent)
          THEN status = "running" /\ Str(cur) = state.next_agent
          ELSE status = "returned" /\ cur = ""

C6_Witness ==
    /\ status = "returned"
    /\ NoLlmRaise
    /\ state.next_agent = Str("tester")

\* The scripted run of the end-to-end example.
\* The agent and the model's answer of the i-th step.
Answer(i) == [agent |-> trace[i].agent, kind |-> trace[i].kind, content |-> trace[i].content]

FibonacciScript ==
    /\ Len(trace) >= 3
    /\ Answer(1) = [agent |-> "planner", kind |-> "reply", content |-> R_CODER]
    /\ Answer(2) = [agent |-> "coder", kind |-> "reply", content |-> R_REVIEWER]
    /\ Answer(3) = [agent |-> "reviewer", kind |-> "reply", content |-> R_APPROVED]

\* C7: planner replies {"next_agent":"coder"}, coder {"next_agent":"reviewer"},
\* reviewer {"approved": true}: three steps run, the final result holds the
\* user message and three appended messages, and its selector is terminal.
C7_EndToEnd ==
    FibonacciScript =>
        /\ Len(trace) = 3
        /\ status = "returned"
        /\ DOMAIN result = DOMAIN state
        /\ result["messages"] =
              <<HumanMessage(input), AIMessage(R_CODER), AIMessage(R_REVIEWER),
                AIMessage(R_APPROVED)>>
        /\ ~IsRegistered(result["next_agent"])

\* C8: run never raises: an exception of a model call, at any step, ends the
\* run with a returned result that carries the exception's message.
C8_RunNeverRaises ==
    /\ status # "raised"
    /\ \A i \in 1..Len(trace) :
          trace[i].kind = "raise" =>
              /\ i = Len(trace)
              /\ status = "returned"
              /\ DOMAIN result = {"error", "messages"}
              /\ result["error"] = trace[i].content
              /\ result["messages"] = <<AIMessage(ErrorText(trace[i].content))>>

C8_Witness ==
    /\ status = "returned"
    /\ Len(trace) >= 3
    /\ trace[Len(trace)].kind = "raise"
    /\ trace[Len(trace)].agent = "coder"

\* Some reply of the run was not valid JSON.
SomeReplyInvalidJson ==
    \E i \in 1..Len(trace) :
        trace[i].kind = "reply" /\ JsonLoads(trace[i].content).kind = "invalid"

\* C9: a reply that is not valid JSON is not surfaced as an error: the final
\* result of a run with such replies, in which no model call raised, has no
\* error field.
C9_NoErrorSurfaced ==
    (status = "returned" /\ NoLlmRaise /\ SomeReplyInvalidJson) =>
        "error" \notin DOMAIN result

(***************************************************************************)
(*          generate_response as a specification of its own               *)
(***************************************************************************)
ProviderInit ==
    /\ RouterIdle
    /\ HebrewIdle
    /\ FlattenIdle
    /\ DifyIdle
    /\ ValidateIdle
    /\ p_status = "ready"
    /\ p_args \in GenerateArgs
    /\ p_ext = NoExt
    /\ p_result = NoResult
    /\ p_calls = <<>>

\* One call of VertexAIProvider.generate_response with the arguments p_args.
GenerateResponse ==
    /\ p_status = "ready"
    /\ \E ext \in ExtOutcomes :
        LET r == generate_response(p_args.prompt, p_args.model_name, p_args.max_tokens,
                                   p_args.temperature, p_args.enable_hebrew, ext)
        IN
        /\ p_ext' = ext
        /\ p_status' = r.status
        /\ p_result' = r.result
        /\ p_calls' = r.calls
    /\ UNCHANGED <<p_args, routerVars, hebrewVars, flattenVars, difyVars, validateVars>>

ProviderNext == GenerateResponse

ProviderSpec == ProviderInit /\ [][ProviderNext]_vars

\* The exception generate_response met, if any: its message, or "" for none.
ProviderException ==
    IF p_args.model_name \notin DOMAIN available_models
    THEN UnknownModelText(p_args.model_name)
    ELSE p_ext.error

\* C10: generate_response never raises: whatever exception occurs while
\* selecting or constructing the model, calling the generation API or reading
\* its reply, the call returns the failure record with that exception's message.
C10_GenerateNeverRaises ==
    /\ p_status # "raised"
    /\ (p_status = "returned" /\ ProviderException # "") =>
          /\ DOMAIN p_result = {"success", "error", "model", "response"}
          /\ p_result["success"] = FALSE
          /\ p_result["response"] = PyNone
          /\ p_result["error"] = ProviderException
    /\ (p_status = "returned" /\ ProviderException = "") => p_result["success"] = TRUE

C10_Witness ==
    /\ p_status = "returned"
    /\ p_args.model_name = "gemini-flash"
    /\ p_ext.at = "ctor"
    /\ p_result["success"] = FALSE
    /\ p_result["error"] = "429 quota exceeded"

\* C11: for a model name outside the registry generate_response returns the
\* failure record whose error names that model and lists the registered
\* names, and generate_content is not called.
C11_UnknownModel ==
    (p_status # "ready" /\ p_status # "idle"
        /\ p_args.model_name \notin {"gemini-pro", "gemini-flash"}) =>
        /\ p_status = "returned"
        /\ p_result["success"] = FALSE
        /\ p_result["model"] = p_args.model_name
        /\ p_result["error"] =
              (CASE p_args.model_name = "gpt-4" ->
                      "Model gpt-4 not available. Choose from: ['gemini-pro', 'gemini-flash']"
                 [] p_args.model_name = "gemini-ultra" ->
                      "Model gemini-ultra not available. Choose from: ['gemini-pro', 'gemini-flash']")
        /\ p_calls = <<>>

C11_Witness ==
    /\ p_status = "returned"
    /\ p_args.model_name = "gemini-ultra"
    /\ p_ext.at = "none"
    /\ p_result["success"] = FALSE

\* C12: the temperature handed to generate_content lies in [0, 1] (0..10 tenths).
C12_TemperatureClamped ==
    \A i \in 1..Len(p_calls) :
        /\ 0 <= p_calls[i].generation_config.temperature
        /\ p_calls[i].generation_config.temperature <= 10

\* C13: the max_output_tokens handed to generate_content is the requested
\* max_tokens when that is at most the model's ceiling of 8192, and the
\* ceiling otherwise.
C13_MaxTokensClamped ==
    \A i \in 1..Len(p_calls) :
        LET sent == p_calls[i].generation_config.max_output_tokens IN
        /\ sent <= 8192
        /\ sent <= p_args.max_tokens
        /\ sent = 8192 \/ sent = p_args.max_tokens

C13_Witness ==
    /\ p_status = "returned"
    /\ Len(p_calls) = 1
    /\ p_args.max_tokens = 8193
    /\ p_calls[1].generation_config.max_output_tokens = 8192

(***************************************************************************)
(*        The Hebrew helpers as a specification of their own              *)
(***************************************************************************)
\* Longest string given to the helpers.
MaxLen == 3

\* The characters of the strings: A, space, U+058F, U+0590, alef (U+05D0),
\* U+05FF and U+0600.
HebrewAlphabet == {65, 32, 1423, 1424, 1488, 1535, 1536}

\* All strings over the alphabet of at most n characters.
RECURSIVE StringsUpTo(_)
StringsUpTo(n) ==
    IF n = 0 THEN {<<>>}
    ELSE LET shorter == StringsUpTo(n - 1) IN
         shorter \cup {Append(t, c) : t \in shorter, c \in HebrewAlphabet}

HebrewInit ==
    /\ RouterIdle
    /\ ProviderIdle
    /\ FlattenIdle
    /\ DifyIdle
    /\ ValidateIdle
    /\ h_text \in StringsUpTo(MaxLen)
    /\ h_detect_p = <<>>
    /\ h_detect_d = <<>>
    /\ h_enhanced = <<>>

\* VertexAIProvider._contains_hebrew(h_text)
ProviderContainsHebrew ==
    /\ h_detect_p = <<>>
    /\ h_detect_p' = <<contains_hebrew(h_text)>>
    /\ UNCHANGED <<h_text, h_detect_d, h_enhanced, routerVars, providerVars,
                   flattenVars, difyVars, validateVars>>

\* DifyVertexAIIntegration._contains_hebrew(h_text)
DifyContainsHebrew ==
    /\ h_detect_d = <<>>
    /\ h_detect_d' = <<dify_contains_hebrew(h_text)>>
    /\ UNCHANGED <<h_text, h_detect_p, h_enhanced, routerVars, providerVars,
                   flattenVars, difyVars, validateVars>>

\* VertexAIProvider._prepare_hebrew_prompt(h_text)
PrepareHebrewPrompt ==
    /\ h_enhanced = <<>>
    /\ h_enhanced' = <<prepare_hebrew_prompt(h_text)>>
    /\ UNCHANGED <<h_text, h_detect_p, h_detect_d, routerVars, providerVars,
                   flattenVars, difyVars, validateVars>>

HebrewNext ==
    \/ ProviderContainsHebrew
    \/ DifyContainsHebrew
    \/ PrepareHebrewPrompt

HebrewSpec == HebrewInit /\ [][HebrewNext]_vars

\* Some character of h_text lies in U+0590..U+05FF.
InHebrewBlock == \E i \in 1..Len(h_text) : h_text[i] \in 1424..1535

AllAscii == \A i \in 1..Len(h_text) : h_text[i] \in 0..127

\* C14: each of the two detectors answers true exactly when some character of
\* the input lies in U+0590..U+05FF, hence false for the empty and for an
\* all-ASCII string, and the two answers agree.
C14_ContainsHebrew ==
    /\ h_detect_p # <<>> => (h_detect_p[1] <=> InHebrewBlock)
    /\ h_detect_d # <<>> => (h_detect_d[1] <=> InHebrewBlock)
    /\ (h_detect_p # <<>> /\ (h_text = <<>> \/ AllAscii)) => h_detect_p[1] = FALSE
    /\ (h_detect_d # <<>> /\ (h_text = <<>> \/ AllAscii)) => h_detect_d[1] = FALSE
    /\ (h_detect_p # <<>> /\ h_detect_d # <<>>) => h_detect_p = h_detect_d

C14_Witness ==
    /\ h_text = <<65, 1535>>
    /\ h_detect_p = <<TRUE>>
    /\ h_detect_d = <<TRUE>>

\* The enhanced string starts with the instruction block and ends with the input.
BlockBeforeInput(e) ==
    /\ Len(e) >= Len(hebrew_instructions) + Len(h_text)
    /\ SubSeq(e, 1, Len(hebrew_instructions)) = hebrew_instructions
    /\ SubSeq(e, Len(e) - Len(h_text) + 1, Len(e)) = h_text

\* The enhanced string starts with the input and ends with the instruction block.
BlockAfterInput(e) ==
    /\ Len(e) >= Len(hebrew_instructions) + Len(h_text)
    /\ SubSeq(e, 1, Len(h_text)) = h_text
    /\ SubSeq(e, Len(e) - Len(hebrew_instructions) + 1, Len(e)) = hebrew_instructions

\* C15: the enhancer puts the instruction block before an input that has a
\* character in U+0590..U+05FF and after any other input, the empty one
\* included; where the block goes agrees with the detector's answer.
C15_EnhancerPlacement ==
    h_enhanced # <<>> =>
        /\ IF InHebrewBlock
           THEN BlockBeforeInput(h_enhanced[1]) /\ ~BlockAfterInput(h_enhanced[1])
           ELSE BlockAfterInput(h_enhanced[1]) /\ ~BlockBeforeInput(h_enhanced[1])
        /\ h_detect_p # <<>> => (h_detect_p[1] <=> BlockBeforeInput(h_enhanced[1]))
        /\ h_detect_d # <<>> => (h_detect_d[1] <=> BlockBeforeInput(h_enhanced[1]))

C15_Witness ==
    /\ h_text = <<65, 32, 1424>>
    /\ h_enhanced # <<>>
    /\ h_detect_p = <<TRUE>>
    /\ BlockBeforeInput(h_enhanced[1])

\* C16: the enhanced string is strictly longer than the input and holds the
\* input unchanged as a contiguous substring.
C16_EnhancerKeepsInput ==
    h_enhanced # <<>> =>
        LET e == h_enhanced[1] IN
        /\ Len(e) > Len(h_text)
        /\ \E k \in 0..(Len(e) - Len(h_text)) : SubSeq(e, k + 1, k + Len(h_text)) = h_text

C16_Witness ==
    /\ h_text = <<1488, 32, 65>>
    /\ h_enhanced # <<>>
    /\ Len(h_enhanced[1]) = Len(h_text) + Len(hebrew_instructions) + 2

(***************************************************************************)
(*     DifyVertexAIIntegration._messages_to_prompt                         *)
(***************************************************************************)
\* Longest message list given to _messages_to_prompt.
MaxMsgs == 3

\* "System: ", "User: " and "Assistant: "
SystemPrefix == <<83, 121, 115, 116, 101, 109, 58, 32>>
UserPrefix == <<85, 115, 101, 114, 58, 32>>
AssistantPrefix == <<65, 115, 115, 105, 115, 116, 97, 110, 116, 58, 32>>

\* One turn of the loop: what the message appends to prompt_parts.
prompt_part(message) ==
    LET role == Get(message, "role", "user")
        content == Get(message, "content", <<>>)
    IN  IF role = "system" THEN <<SystemPrefix \o content>>
        ELSE IF role = "user" THEN <<UserPrefix \o content>>
        ELSE IF role = "assistant" THEN <<AssistantPrefix \o content>>
        ELSE <<>>

\* prompt_parts after the loop over messages
RECURSIVE prompt_parts(_)
prompt_parts(messages) ==
    IF messages = <<>> THEN <<>>
    ELSE prompt_part(Head(messages)) \o prompt_parts(Tail(messages))

\* sep.join(parts)
RECURSIVE Join(_, _)
Join(sep, parts) ==
    IF parts = <<>> THEN <<>>
    ELSE IF Len(parts) = 1 THEN parts[1]
    ELSE parts[1] \o sep \o Join(sep, Tail(parts))

\* _messages_to_prompt that joins the lines with a single newline.
messages_to_prompt_one_newline(messages) == Join(<<10>>, prompt_parts(messages))

\* "\n\n".join(prompt_parts)
messages_to_prompt(messages) == Join(<<10, 10>>, prompt_parts(messages))

\* The contents of the messages: empty, "a", and alef followed by a newline.
Contents == {<<>>, <<97>>, <<1488, 10>>}

\* The messages of the lists: the three known roles and "tool" with each
\* content, a message without a role and one without a content.
Messages ==
    [role : {"system", "user", "assistant", "tool"}, content : Contents \ {<<>>}]
        \cup {[role |-> "user", content |-> <<>>]}
        \cup {[content |-> <<97>>], [role |-> "assistant"]}

RECURSIVE MessageLists(_)
MessageLists(n) ==
    IF n = 0 THEN {<<>>}
    ELSE LET shorter == MessageLists(n - 1) IN
         shorter \cup {Append(l, m) : l \in shorter, m \in Messages}

FlattenInit ==
    /\ RouterIdle
    /\ ProviderIdle
    /\ HebrewIdle
    /\ DifyIdle
    /\ ValidateIdle
    /\ f_messages \in MessageLists(MaxMsgs)
    /\ f_prompt = <<>>

\* _messages_to_prompt(f_messages)
MessagesToPrompt ==
    /\ f_prompt = <<>>
    /\ f_prompt' = <<messages_to_prompt(f_messages)>>
    /\ UNCHANGED <<f_messages, routerVars, providerVars, hebrewVars, difyVars,
                   validateVars>>

FlattenNext == MessagesToPrompt

FlattenSpec == FlattenInit /\ [][FlattenNext]_vars

\* Every message is a (role, content) pair.
RoleTagged == \A i \in 1..Len(f_messages) : DOMAIN f_messages[i] = {"role", "content"}

Recognised(m) == m.role \in {"system", "user", "assistant"}

\* "System", "User", "Assistant"
RoleName(r) ==
    CASE r = "system" -> <<83, 121, 115, 116, 101, 109>>
      [] r = "user" -> <<85, 115, 101, 114>>
      [] r = "assistant" -> <<65, 115, 115, 105, 115, 116, 97, 110, 116>>

\* "<Role>: <content>"
RoleLine(m) == RoleName(m.role) \o <<58, 32>> \o m.content

\* The lines of ms[1..n], written one after the other, a blank line between two.
RECURSIVE BlankLineJoin(_, _)
BlankLineJoin(ms, n) ==
    IF n = 0 THEN <<>>
    ELSE IF n = 1 THEN RoleLine(ms[1])
    ELSE BlankLineJoin(ms, n - 1) \o <<10, 10>> \o RoleLine(ms[n])

\* C17: for a list of (role, content) pairs, the flattened prompt is the
\* "\n\n" join, in input order, of the line "<Role>: <content>" of exactly the
\* messages whose role is system, user or assistant; the other messages
\* contribute nothing.
C17_MessageFlattening ==
    (f_prompt # <<>> /\ RoleTagged) =>
        LET kept == SelectSeq(f_messages, Recognised) IN
        f_prompt[1] = BlankLineJoin(kept, Len(kept))

C17_Witness ==
    /\ f_messages = << [role |-> "user", content |-> <<97>>],
                       [role |-> "tool", content |-> <<97>>],
                       [role |-> "system", content |-> <<1488, 10>>] >>
    /\ f_prompt = << UserPrefix \o <<97>> \o <<10, 10>> \o SystemPrefix \o <<1488, 10>> >>

(***************************************************************************)
(*     DifyVertexAIIntegration: initialize_provider and generate_response  *)
(***************************************************************************)
\* self.model_configs, lines 43-74: the parameter rules of the two models
\* (temperature in tenths, top_p in hundredths).
model_configs ==
    [x \in {"gemini-pro", "gemini-flash"} |->
        [model_name |-> x, model_type |-> "llm", mode |-> "chat",
         parameters |->
            [temperature |-> [min |-> 0, max |-> 10,
                              default |-> IF x = "gemini-pro" THEN 7 ELSE 3],
             max_tokens |-> [min |-> 1, max |-> 8192, default |-> 1024],
             top_p |-> [min |-> 0, max |-> 100, default |-> 95],
             top_k |-> [min |-> 1, max |-> 100, default |-> 40]]]]

\* "test-project", '{"type": "service_account"}' cut to its first characters,
\* "/keys/sa.json" cut likewise, and the name of the temporary file.
TestProject == <<116, 101, 115, 116, 45, 112, 114, 111, 106, 101, 99, 116>>
InlineKey == <<123, 34, 116, 121, 112, 101, 34, 125>>
KeyPath == <<47, 107, 101, 121, 115>>
TempFileName == <<47, 116, 109, 112, 47, 116, 109, 112, 46, 106, 115, 111, 110>>

\* Python truth of a string or None.
StrTruthy(v) == v # PyNone /\ v # <<>>

\* VertexAIProvider(project_id, location, credentials_path): the provider object.
VertexAIProvider(project_id, location, credentials_path) ==
    [project_id |-> project_id, location |-> location,
     credentials_path |-> credentials_path]

\* What initialize_provider returns when it returns False without a new provider.
InitFailed(vertex_provider, constructed) ==
    [status |-> "returned", result |-> FALSE, provider |-> vertex_provider,
     constructed |-> constructed]

\* initialize_provider whose project_id test stands before the try block.
initialize_provider_check_before_try(vertex_provider, credentials, ext) ==
    LET project_id == Get(credentials, "project_id", PyNone)
        location == Get(credentials, "location", "us-east1")
        service_account_key == Get(credentials, "service_account_key", PyNone)
        inline == StrTruthy(service_account_key) /\ service_account_key[1] = 123
        credentials_path ==
            IF ~StrTruthy(service_account_key) THEN PyNone
            ELSE IF inline THEN TempFileName
            ELSE service_account_key
        provider == VertexAIProvider(project_id, location, credentials_path)
    IN
    IF ~StrTruthy(project_id)
    THEN [status |-> "raised", result |-> NoResult, provider |-> vertex_provider,
          constructed |-> FALSE]
    ELSE IF inline /\ ext = "tempfile" THEN InitFailed(vertex_provider, FALSE)
    ELSE IF ext = "ctor" THEN InitFailed(vertex_provider, TRUE)
    ELSE IF ext = "validate" THEN InitFailed(provider, TRUE)
    ELSE [status |-> "returned", result |-> TRUE, provider |-> provider,
          constructed |-> TRUE]

\* initialize_provider, lines 76-123.  ext says where the environment fails:
\* "tempfile" (writing the inline key raises), "ctor" (VertexAIProvider(...)
\* raises), "validate" (validate_configuration returns success False), "ok".
\* The result gives the returned value, self.vertex_provider after the call and
\* whether VertexAIProvider(...) was called.
initialize_provider(vertex_provider, credentials, ext) ==
    LET project_id == Get(credentials, "project_id", PyNone)
        location == Get(credentials, "location", "us-east1")
        service_account_key == Get(credentials, "service_account_key", PyNone)
        inline == StrTruthy(service_account_key) /\ service_account_key[1] = 123
        credentials_path ==
            IF ~StrTruthy(service_account_key) THEN PyNone
            ELSE IF inline THEN TempFileName
            ELSE service_account_key
        provider == VertexAIProvider(project_id, location, credentials_path)
    IN
    IF ~StrTruthy(project_id) THEN InitFailed(vertex_provider, FALSE)
    ELSE IF inline /\ ext = "tempfile" THEN InitFailed(vertex_provider, FALSE)
    ELSE IF ext = "ctor" THEN InitFailed(vertex_provider, TRUE)
    ELSE IF ext = "validate" THEN InitFailed(provider, TRUE)
    ELSE [status |-> "returned", result |-> TRUE, provider |-> provider,
          constructed |-> TRUE]

\* An exception leaving generate_response: its class and the parts of its message.
Raised(class, message) ==
    [status |-> "raised", result |-> [exception |-> class, message |-> message],
     calls |-> <<>>]

\* generate_response that counts only the completion in total_tokens.
dify_generate_response_completion_total(vertex_provider, model, messages, parameters, ext) ==
    IF DOMAIN vertex_provider = {}
    THEN Raised("RuntimeError", <<"Vertex AI provider not initialized">>)
    ELSE IF model \notin DOMAIN model_configs
    THEN Raised("ValueError", <<"Model ", model, " not supported">>)
    ELSE
    LET prompt == messages_to_prompt(messages)
        temperature == Get(parameters, "temperature", 7)
        max_tokens == Get(parameters, "max_tokens", 1024)
        call == generate_response(prompt, model, max_tokens, temperature, TRUE, ext)
        response == call.result
    IN
    IF ~response["success"]
    THEN [Raised("RuntimeError", <<"Generation failed: ", response["error"]>>)
            EXCEPT !.calls = call.calls]
    ELSE [status |-> "returned",
          result |->
            [model |-> model,
             usage |-> [prompt_tokens |-> WordCount(prompt),
                        completion_tokens |-> response["tokens_used"],
                        total_tokens |-> response["tokens_used"]],
             message |-> [role |-> "assistant", content |-> response["response"]]],
          calls |-> call.calls]

\* generate_response that tests the model name before the provider.
dify_generate_response_model_first(vertex_provider, model, messages, parameters, ext) ==
    IF model \notin DOMAIN model_configs
    THEN Raised("ValueError", <<"Model ", model, " not supported">>)
    ELSE IF DOMAIN vertex_provider = {}
    THEN Raised("RuntimeError", <<"Vertex AI provider not initialized">>)
    ELSE
    LET prompt == messages_to_prompt(messages)
        temperature == Get(parameters, "temperature", 7)
        max_tokens == Get(parameters, "max_tokens", 1024)
        call == generate_response(prompt, model, max_tokens, temperature, TRUE, ext)
        response == call.result
    IN
    IF ~response["success"]
    THEN [Raised("RuntimeError", <<"Generation failed: ", response["error"]>>)
            EXCEPT !.calls = call.calls]
    ELSE [status |-> "returned",
          result |->
            [model |-> model,
             usage |-> [prompt_tokens |-> WordCount(prompt),
                        completion_tokens |-> response["tokens_used"],
                        total_tokens |-> WordCount(prompt) + response["tokens_used"]],
             message |-> [role |-> "assistant", content |-> response["response"]]],
          calls |-> call.calls]

\* DifyVertexAIIntegration.generate_response, lines 250-305; ext is the SDK's
\* behaviour during the provider call.
dify_generate_response(vertex_provider, model, messages, parameters, ext) ==
    IF DOMAIN vertex_provider = {}
    THEN Raised("RuntimeError", <<"Vertex AI provider not initialized">>)
    ELSE IF model \notin DOMAIN model_configs
    THEN Raised("ValueError", <<"Model ", model, " not supported">>)
    ELSE
    LET prompt == messages_to_prompt(messages)
        temperature == Get(parameters, "temperature", 7)
        max_tokens == Get(parameters, "max_tokens", 1024)
        call == generate_response(prompt, model, max_tokens, temperature, TRUE, ext)
        response == call.result
    IN
    IF ~response["success"]
    THEN [Raised("RuntimeError", <<"Generation failed: ", response["error"]>>)
            EXCEPT !.calls = call.calls]
    ELSE [status |-> "returned",
          result |->
            [model |-> model,
             usage |-> [prompt_tokens |-> WordCount(prompt),
                        completion_tokens |-> response["tokens_used"],
                        total_tokens |-> WordCount(prompt) + response["tokens_used"]],
             message |-> [role |-> "assistant", content |-> response["response"]]],
          calls |-> call.calls]

\* The credentials explored: project_id absent, empty or "test-project";
\* location absent or given; service_account_key absent, inline JSON or a path.
NoCredentials == [k \in {} |-> <<>>]
ProjectIdParts == {NoCredentials, [project_id |-> <<>>], [project_id |-> TestProject]}
LocationParts == {NoCredentials, [location |-> "us-east1"], [location |-> "europe-west1"]}
KeyParts ==
    {NoCredentials, [service_account_key |-> InlineKey], [service_account_key |-> KeyPath]}

\* {**a, **b}
Merge(a, b) == [k \in DOMAIN a \cup DOMAIN b |-> IF k \in DOMAIN b THEN b[k] ELSE a[k]]

CredentialInputs ==
    {Merge(Merge(a, b), c) : a \in ProjectIdParts, b \in LocationParts, c \in KeyParts}

InitOutcomes == {"ok", "tempfile", "ctor", "validate"}

\* The calls of generate_response explored.
DifyModels == {"gemini-pro", "gemini-flash", "gpt-4"}
DifyMessageLists ==
    { <<>>,
      << [role |-> "user", content |-> <<1513, 1500, 1493, 1501>>] >>,
      << [role |-> "system", content |-> <<97>>],
         [role |-> "user", content |-> <<97, 32, 98>>] >> }
DifyParameters ==
    { [k \in {} |-> 0],
      [temperature |-> 7, max_tokens |-> 100],
      [temperature |-> 15, max_tokens |-> 8193] }

\* integration.initialize_provider(credentials)
InitializeProvider ==
    \E credentials \in CredentialInputs, ext \in InitOutcomes :
        LET r == initialize_provider(d_provider, credentials, ext) IN
        /\ d_provider' = r.provider
        /\ d_status' = r.status
        /\ d_result' = r.result
        /\ d_calls' = <<>>
        /\ d_op' = [name |-> "initialize_provider", credentials |-> credentials,
                    ext |-> ext, constructed |-> r.constructed]
        /\ d_last_init' = IF r.status = "returned" THEN <<r.result>> ELSE d_last_init
        /\ UNCHANGED <<routerVars, providerVars, hebrewVars, flattenVars, validateVars>>

\* integration.generate_response(model, messages, parameters)
DifyGenerateResponse ==
    \E model \in DifyModels, messages \in DifyMessageLists,
       parameters \in DifyParameters, ext \in ExtOutcomes :
        LET r == dify_generate_response(d_provider, model, messages, parameters, ext) IN
        /\ d_status' = r.status
        /\ d_result' = r.result
        /\ d_calls' = r.calls
        /\ d_op' = [name |-> "generate_response", model |-> model,
                    messages |-> messages, parameters |-> parameters, ext |-> ext]
        /\ UNCHANGED <<d_provider, d_last_init>>
        /\ UNCHANGED <<routerVars, providerVars, hebrewVars, flattenVars, validateVars>>

DifyNext ==
    \/ InitializeProvider
    \/ DifyGenerateResponse

DifySpec == Init /\ [][DifyNext]_vars

\* The last call on the integration was initialize_provider.
InitializeCalled == d_op.name = "initialize_provider"

\* project_id is missing from the credentials or empty.
NoProjectId ==
    "project_id" \notin DOMAIN d_op.credentials \/ d_op.credentials["project_id"] = <<>>

\* C18: initialize_provider returns a boolean and never raises, whatever the
\* credentials and wherever the environment fails (writing the key file,
\* constructing the provider, validating it); with a missing or empty
\* project_id it returns False and VertexAIProvider is not constructed.
C18_InitializeNeverRaises ==
    InitializeCalled =>
        /\ d_status = "returned"
        /\ d_result \in BOOLEAN
        /\ NoProjectId => (d_result = FALSE /\ ~d_op.constructed)
        /\ d_op.ext \in {"ctor", "validate"} => d_result = FALSE

C18_Witness ==
    /\ InitializeCalled
    /\ d_op.credentials = [project_id |-> <<>>, location |-> "us-east1"]
    /\ d_op.ext = "ok"
    /\ d_status = "returned"
    /\ d_result = FALSE
    /\ d_provider = NoProvider

\* The last call was generate_response for a registered model, the SDK
\* answered, and the last initialize_provider returned True for credentials
\* without a service-account key.
GenerateSucceededAfterInit ==
    /\ d_op.name = "generate_response"
    /\ d_last_init = <<TRUE>>
    /\ d_provider.credentials_path = PyNone
    /\ d_op.model \in {"gemini-pro", "gemini-flash"}
    /\ d_op.ext.at = "none"

\* C20: after a successful key-less initialize_provider, generate_response for
\* a registered model whose provider call succeeds returns a record with the
\* requested model, a message of role "assistant" whose content is the reply
\* text, and a usage where total_tokens = prompt_tokens + completion_tokens.
C20_SuccessRecord ==
    GenerateSucceededAfterInit =>
        /\ d_status = "returned"
        /\ d_result.model = d_op.model
        /\ d_result.message.role = "assistant"
        /\ d_result.message.content =
               (IF d_op.ext.text = PyNone THEN <<>> ELSE d_op.ext.text)
        /\ d_result.usage.total_tokens =
               d_result.usage.prompt_tokens + d_result.usage.completion_tokens

C20_Witness ==
    /\ GenerateSucceededAfterInit
    /\ d_op.model = "gemini-flash"
    /\ d_op.messages = << [role |-> "user", content |-> <<1513, 1500, 1493, 1501>>] >>
    /\ d_op.ext.text = <<1513, 1500, 1493, 1501, 32, 1506, 1493, 1500, 1501>>
    /\ d_status = "returned"
    /\ d_result.usage = [prompt_tokens |-> 2, completion_tokens |-> 2, total_tokens |-> 4]

(***************************************************************************)
(*     validate_implementation: generate_validation_report and main        *)
(***************************************************************************)
\* validate_hebrew_support, line 242, from the number of features found
validate_hebrew_support(hebrew_features) == hebrew_features >= 8

\* validate_configuration_completeness, line 296, from the number of distinct
\* configuration checks found
validate_configuration_completeness(config_checks) == config_checks >= 10

\* report["validation_results"], lines 306-312
validation_results(found) ==
    [file_structure |-> found.all_files_ok,
     vertex_ai_provider |-> found.provider_valid,
     dify_integration |-> found.dify_valid,
     hebrew_support |-> validate_hebrew_support(found.hebrew_features),
     configuration |-> validate_configuration_completeness(found.config_checks)]

\* sum(1 for result in results.values() if result)
PassedTests(results) == Cardinality({k \in DOMAIN results : results[k]})

\* generate_validation_report with READY only above a score of 80.
generate_validation_report_above_80(found) ==
    LET results == validation_results(found)
        total_tests == Cardinality(DOMAIN results)
        score == (PassedTests(results) * 100) \div total_tests
    IN  [validation_results |-> results,
         overall_score |-> score,
         status |-> IF score > 80 THEN "READY"
                    ELSE IF score >= 60 THEN "NEEDS_WORK" ELSE "INCOMPLETE"]

\* generate_validation_report, lines 299-342.  The score (passed / total) * 100
\* is a float; with five tests it is exactly 0, 20, 40, 60, 80 or 100.
generate_validation_report(found) ==
    LET results == validation_results(found)
        total_tests == Cardinality(DOMAIN results)
        score == (PassedTests(results) * 100) \div total_tests
    IN  [validation_results |-> results,
         overall_score |-> score,
         status |-> IF score >= 80 THEN "READY"
                    ELSE IF score >= 60 THEN "NEEDS_WORK" ELSE "INCOMPLETE"]

\* main, lines 345-368: the value it returns for a report
main(report) == IF report.status = "READY" THEN 0 ELSE 1

\* What the validators may find: each of the three pattern validations passes
\* or not, 0..17 Hebrew features and 0..13 configuration checks (the values
\* around the two thresholds and the extremes).
HebrewFeatureCounts == {0, 7, 8, 17}
ConfigCheckCounts == {0, 9, 10, 13}
Findings ==
    [all_files_ok : BOOLEAN, provider_valid : BOOLEAN, dify_valid : BOOLEAN,
     hebrew_features : HebrewFeatureCounts, config_checks : ConfigCheckCounts]

ValidateInit ==
    /\ RouterIdle
    /\ ProviderIdle
    /\ HebrewIdle
    /\ FlattenIdle
    /\ DifyIdle
    /\ v_found \in Findings
    /\ v_report = NoResult
    /\ v_exit = <<>>

\* generate_validation_report() called on its own
GenerateValidationReport ==
    /\ v_exit = <<>>
    /\ v_report = NoResult
    /\ v_report' = generate_validation_report(v_found)
    /\ UNCHANGED <<v_found, v_exit, routerVars, providerVars, hebrewVars,
                   flattenVars, difyVars>>

\* main(): builds the report and returns the exit code
Main ==
    /\ v_exit = <<>>
    /\ v_report' = generate_validation_report(v_found)
    /\ v_exit' = <<main(v_report')>>
    /\ UNCHANGED <<v_found, routerVars, providerVars, hebrewVars, flattenVars,
                   difyVars>>

ValidateNext ==
    \/ GenerateValidationReport
    \/ Main

ValidateSpec == ValidateInit /\ [][ValidateNext]_vars

\* The five results of the report, and how many of them are false.
FiveResults ==
    {"file_structure", "vertex_ai_provider", "dify_integration", "hebrew_support",
     "configuration"}
FailedResults == {k \in FiveResults : ~v_report.validation_results[k]}

\* C19 as stated: main returns 0 only if every one of the five validation
\* results is true and 1 as soon as one of them is false.
C19_ExitCodeAllPass ==
    v_exit # <<>> => (v_exit[1] = 0 <=> FailedResults = {}) /\ v_exit[1] \in {0, 1}

\* C19 amended: main returns 0 exactly when at most one of the five validation
\* results is false (a score of at least 80), and 1 when two or more are false.
C19_ExitCodeScore ==
    v_exit # <<>> =>
        /\ DOMAIN v_report.validation_results = FiveResults
        /\ v_exit[1] \in {0, 1}
        /\ v_exit[1] = 0 <=> Cardinality(FailedResults) <= 1
        /\ FailedResults = {} => v_exit[1] = 0

C19_Witness ==
    /\ v_exit = <<0>>
    /\ FailedResults = {"hebrew_support"}
    /\ v_found.hebrew_features = 7
    /\ v_report.overall_score = 80

(***************************************************************************)
(*              Further properties of the router                           *)
(***************************************************************************)
\* C21: when the model call of a step raises, the step ends with its fixed
\* fallback successor and the run goes on from there (after the reviewer it
\* is over without an error); the failed call is not made again.
C21_FailedCallFallsBack ==
    \A i \in 1..Len(trace) :
        trace[i].kind = "raise" =>
            LET a == trace[i].agent IN
            /\ "error" \notin DOMAIN result
            /\ IF a = "reviewer"
               THEN i = Len(trace) /\ status = "returned"
               ELSE IF i < Len(trace)
                    THEN trace[i + 1].agent = DefaultSuccessor(a)
                    ELSE status = "running" /\ cur = DefaultSuccessor(a)

\* The last step was the reviewer's, and the model answered it.
ReviewReplied ==
    /\ trace # <<>>
    /\ trace[Len(trace)].agent = "reviewer"
    /\ trace[Len(trace)].kind = "reply"

LastReply == trace[Len(trace)].content

\* approved is absent from the parsed reply or is false.
NotApproved(obj) == "approved" \notin DOMAIN obj \/ obj["approved"] = JFalse

\* The step named sel runs next, or the run is over when sel names no step.
SuccessorIs(sel) ==
    /\ state.next_agent = sel
    /\ IF sel[1] = "str" /\ sel[2] \in {"planner", "researcher", "coder", "reviewer"}
       THEN status = "running" /\ cur = sel[2]
       ELSE status = "returned" /\ cur = ""

\* C26: after a review reply that is a JSON object without a true approved,
\* the successor is the reply's next_agent, or planner when the reply has
\* none ({} sends the run back to planner); after an unparseable review reply
\* the run is over.
C26_ReviewerSuccessor ==
    ReviewReplied =>
        LET parsed == JsonLoads(LastReply) IN
        /\ (parsed.kind = "object" /\ NotApproved(parsed.obj)) =>
              IF "next_agent" \in DOMAIN parsed.obj
              THEN SuccessorIs(parsed.obj["next_agent"])
              ELSE SuccessorIs(Str("planner"))
        /\ LastReply = R_OBJ => (status = "running" /\ cur = "planner")
        /\ parsed.kind = "invalid" => (status = "returned" /\ cur = "")

C26_Witness ==
    /\ ReviewReplied
    /\ LastReply = R_OBJ
    /\ Len(trace) = 2
    /\ status = "running"
    /\ cur = "planner"
    /\ state.context["review"] = EmptyDict

\* The run ended in the except clause of run.
Aborted == status = "returned" /\ "error" \in DOMAIN result

\* C28: the result of an aborted run has an error field and a messages list
\* with the one error message, and nothing else: not the user input, not the
\* replies of the steps completed before, no completed_tasks, context or
\* next_agent.
C28_AbortedResult ==
    Aborted =>
        /\ DOMAIN result = {"error", "messages"}
        /\ Len(result["messages"]) = 1
        /\ result["messages"][1] = AIMessage(ErrorText(result["error"]))
        /\ result["messages"][1] # HumanMessage(input)
        /\ \A i \in 1..Len(trace) :
              trace[i].kind = "reply" => result["messages"][1] # AIMessage(trace[i].content)

C28_Witness ==
    /\ Aborted
    /\ Len(trace) = 3
    /\ trace[3].kind = "raise"
    /\ trace[1].content = R_PLAN
    /\ state.context # EmptyDict
    /\ state.completed_tasks # <<>>
    /\ Len(state.messages) = 3

\* A step of the graph was executed; LastStep is its record in the trace.
StepTaken == Len(trace') = Len(trace) + 1
LastStep == trace'[Len(trace')]
Replied == StepTaken /\ LastStep.kind = "reply"
ReplyKind == JsonLoads(LastStep.content).kind

\* What a step of the model may change, by agent and by what the reply is.
StepFrame ==
    Replied =>
        /\ DOMAIN state' = DOMAIN state
        /\ LastStep.agent = "planner" => state'.completed_tasks = state.completed_tasks
        /\ LastStep.agent \in {"researcher", "coder", "reviewer"} =>
              state'.current_task = state.current_task
        /\ ReplyKind = "invalid" =>
              /\ state'.current_task = state.current_task
              /\ state'.completed_tasks = state.completed_tasks
              /\ state'.context = state.context
              /\ state'.messages # state.messages

\* C22: a step changes only the fields of its update: the planner never
\* changes completed_tasks; researcher, coder and reviewer never change
\* current_task; a step whose reply does not parse changes only messages and
\* next_agent.
C22_PartialUpdate == [][StepFrame]_vars

C22_Witness ==
    /\ Len(trace) = 2
    /\ trace[1].content = R_PLAN
    /\ trace[2].agent = "researcher"
    /\ trace[2].content = R_TEXT
    /\ state.current_task = Str("t1")
    /\ state.context = [plan |-> SomeList]
    /\ state.completed_tasks = <<>>
    /\ state.next_agent = Str("coder")

\* The context key a step writes.
OwnKey(a) ==
    CASE a = "planner" -> "plan"
      [] a = "researcher" -> "research"
      [] a = "coder" -> "code"
      [] a = "reviewer" -> "review"

\* A step removes no key from context and, when its reply parses as an
\* object, sets its own key and no other.
ContextStep ==
    StepTaken =>
        /\ DOMAIN state.context \subseteq DOMAIN state'.context
        /\ (LastStep.kind = "reply" /\ ReplyKind = "object") =>
              /\ DOMAIN state'.context = DOMAIN state.context \cup {OwnKey(LastStep.agent)}
              /\ \A k \in DOMAIN state.context \ {OwnKey(LastStep.agent)} :
                    state'.context[k] = state.context[k]

\* What holds of the code for C23: the context of the graph's state.
StateContextAccumulates == [][ContextStep]_vars

\* C23: the context only accumulates, so in the final result of a run whose
\* model calls all returned, the key of every step whose reply parsed as an
\* object is present in context.
C23_ContextInFinalResult ==
    (status = "returned" /\ NoLlmRaise) =>
        /\ "context" \in DOMAIN result
        /\ \A i \in 1..Len(trace) :
              JsonLoads(trace[i].content).kind = "object" =>
                  OwnKey(trace[i].agent) \in DOMAIN result["context"]

\* A reply that is JSON but no object is handled like one that is no JSON.
NonObjectStep ==
    (Replied /\ ReplyKind = "other") =>
        LET a == LastStep.agent IN
        /\ state'.messages = Append(state.messages, AIMessage(LastStep.content))
        /\ state'.next_agent = Str(DefaultSuccessor(a))
        /\ state'.context = state.context
        /\ state'.completed_tasks = state.completed_tasks
        /\ state'.current_task = state.current_task
        /\ IF a = "reviewer"
           THEN status' = "returned" /\ cur' = ""
           ELSE status' = "running" /\ cur' = DefaultSuccessor(a)

\* C27: a reply that is valid JSON but not an object makes the step take its
\* fixed fallback successor, append the raw reply to the history and leave
\* context, completed_tasks and current_task as they were.
C27_NonObjectReply == [][NonObjectStep]_vars

C27_Witness ==
    /\ Len(trace) = 2
    /\ trace[1].content = R_PLAN
    /\ trace[2].agent = "researcher"
    /\ trace[2].content = R_NULL
    /\ status = "running"
    /\ cur = "coder"
    /\ state.context = [plan |-> SomeList]
    /\ state.messages[3] = AIMessage(R_NULL)

\* The planner's reply parsed as an object that has no instructions.
NoInstructions(step) ==
    /\ step.agent = "planner"
    /\ step.kind = "reply"
    /\ JsonLoads(step.content).kind = "object"
    /\ "instructions" \notin DOMAIN JsonLoads(step.content).obj

\* Who writes current_task, and what the researcher and coder are asked.
CurrentTaskStep ==
    StepTaken =>
        LET a == LastStep.agent
            parsed == JsonLoads(LastStep.content)
            written == a = "planner" /\ LastStep.kind = "reply" /\ parsed.kind = "object"
        IN
        /\ ~written => state'.current_task = state.current_task
        /\ written =>
              state'.current_task =
                  (IF "instructions" \in DOMAIN parsed.obj
                   THEN parsed.obj["instructions"] ELSE Str(""))
        /\ a \in {"researcher", "coder"} => LastStep.prompt.arg = state.current_task
        /\ (trace = <<>> /\ LastStep.kind = "reply" /\ parsed.kind = "invalid") =>
              state'.current_task = Str(input)
        /\ (Len(trace) = 1 /\ NoInstructions(trace[1]) /\ a \in {"researcher", "coder"}) =>
              /\ LastStep.prompt.arg = Str("")
              /\ input # "" => state.current_task # Str(input)

\* C30: only a planner step whose reply parses as an object writes
\* current_task, with the reply's instructions or the empty string; after a
\* planner reply without instructions the researcher and the coder are asked
\* about an empty task, after a planner reply that does not parse the task is
\* still the user's input.
C30_CurrentTask == [][CurrentTaskStep]_vars

C30_Witness ==
    /\ Len(trace) = 2
    /\ NoInstructions(trace[1])
    /\ trace[2].agent = "coder"
    /\ trace[2].prompt = [prefix |-> "כתוב קוד עבור: ", arg |-> Str("")]
    /\ input = "write a fibonacci function"
    /\ state.current_task = Str("")

(***************************************************************************)
(*     VertexAIProvider.test_hebrew_capabilities                           *)
(***************************************************************************)
\* hebrew_test_prompt, line 178
hebrew_test_prompt ==
    <<1489, 1491, 1493, 1511, 32, 1488, 1514, 32, 1497, 1499, 1493, 1500,
      1493, 1514, 32, 1492, 1506, 1497, 1489, 1493, 1491, 32, 1513, 1500,
      1498, 32, 1489, 1506, 1489, 1512, 1497, 1514, 46, 32, 1505, 1508, 1512,
      32, 1500, 1497, 32, 1506, 1500, 32, 1492, 1497, 1514, 1512, 1493, 1504,
      1493, 1514, 32, 1513, 1500, 32, 1489, 1497, 1504, 1492, 32, 1502, 1500,
      1488, 1499, 1493, 1514, 1497, 1514, 46>>

\* The models in the order of self.available_models.keys()
ModelOrder == <<"gemini-pro", "gemini-flash">>

\* The loop of test_hebrew_capabilities over names; exts[m] is what the SDK
\* does during the call for model m.  generate_response is called with
\* max_tokens=200 and its default temperature 0.7.  A failure record has
\* response None: result.get("response", "") is then None, and
\* _contains_hebrew(None) raises TypeError out of the loop.
RECURSIVE test_models(_, _)
test_models(names, exts) ==
    IF names = <<>>
    THEN [status |-> "returned", result |-> EmptyDict, calls |-> <<>>]
    ELSE
    LET model_name == Head(names)
        r == generate_response(hebrew_test_prompt, model_name, 200, 7, TRUE,
                               exts[model_name])
        response == Get(r.result, "response", <<>>)
        rest == test_models(Tail(names), exts)
        entry == [success |-> r.result["success"],
                  has_hebrew_response |-> contains_hebrew(response),
                  response_length |-> Len(response),
                  error |-> Get(r.result, "error", PyNone)]
    IN
    IF response = PyNone
    THEN [status |-> "raised", result |-> [exception |-> "TypeError"],
          calls |-> r.calls]
    ELSE IF rest.status = "raised"
    THEN [rest EXCEPT !.calls = r.calls \o rest.calls]
    ELSE [status |-> "returned", result |-> Put(rest.result, model_name, entry),
          calls |-> r.calls \o rest.calls]

\* test_hebrew_capabilities, lines 171-199
test_hebrew_capabilities(exts) == test_models(ModelOrder, exts)

\* A provider on which nothing was called yet.
CapabilityInit ==
    /\ RouterIdle
    /\ HebrewIdle
    /\ FlattenIdle
    /\ DifyIdle
    /\ ValidateIdle
    /\ p_status = "ready"
    /\ p_args = NoArgs
    /\ p_ext = NoExt
    /\ p_result = NoResult
    /\ p_calls = <<>>

\* provider.test_hebrew_capabilities()
TestHebrewCapabilities ==
    /\ p_status = "ready"
    /\ \E exts \in [DOMAIN available_models -> ExtOutcomes] :
        LET r == test_hebrew_capabilities(exts) IN
        /\ p_ext' = exts
        /\ p_status' = r.status
        /\ p_result' = r.result
        /\ p_calls' = r.calls
    /\ UNCHANGED <<p_args, routerVars, hebrewVars, flattenVars, difyVars, validateVars>>

CapabilityNext == TestHebrewCapabilities

CapabilitySpec == CapabilityInit /\ [][CapabilityNext]_vars

\* C24: test_hebrew_capabilities does not raise and returns one entry per
\* registered model, also when the generation for a model fails; the entry of
\* a failed model has success false and carries the error.
C24_CapabilityReport ==
    p_status # "ready" =>
        /\ p_status = "returned"
        /\ DOMAIN p_result = DOMAIN available_models
        /\ \A m \in DOMAIN available_models :
              p_ext[m].at # "none" =>
                  /\ p_result[m].success = FALSE
                  /\ p_result[m].error = p_ext[m].error

(***************************************************************************)
(*              Further properties of the integration                      *)
(***************************************************************************)
\* An initialize_provider call that returned False leaves the installed
\* provider as it was.
FailedInitStep ==
    (d_op'.name = "initialize_provider" /\ d_status' = "returned" /\ d_result' = FALSE) =>
        d_provider' = d_provider

\* C25: whenever initialize_provider returns False (missing project_id,
\* provider construction error, failed configuration validation), the
\* installed provider is the same as before the call.
C25_FailedInitInstallsNothing == [][FailedInitStep]_vars

GenerateCalled == d_op.name = "generate_response"
ProviderInstalled == DOMAIN d_provider # {}
ModelConfigured == d_op.model \in {"gemini-pro", "gemini-flash"}

\* C29: generate_response returns a success record or raises, and never
\* returns a failure record: RuntimeError when no provider is installed
\* (tested first), ValueError for a model outside model_configs (tested
\* second), both without a provider call, and RuntimeError with the
\* provider's error when the provider call fails.
C29_ReturnsOrRaises ==
    GenerateCalled =>
        /\ d_status \in {"returned", "raised"}
        /\ d_status = "returned" =>
              /\ DOMAIN d_result = {"model", "usage", "message"}
              /\ ProviderInstalled /\ ModelConfigured /\ d_op.ext.at = "none"
        /\ ~ProviderInstalled =>
              /\ d_status = "raised"
              /\ d_result.exception = "RuntimeError"
              /\ d_result.message = <<"Vertex AI provider not initialized">>
              /\ d_calls = <<>>
        /\ (ProviderInstalled /\ ~ModelConfigured) =>
              /\ d_status = "raised"
              /\ d_result.exception = "ValueError"
              /\ d_calls = <<>>
        /\ (ProviderInstalled /\ ModelConfigured /\ d_op.ext.at # "none") =>
              /\ d_status = "raised"
              /\ d_result.exception = "RuntimeError"
              /\ d_result.message = <<"Generation failed: ", d_op.ext.error>>

C29_Witness ==
    /\ GenerateCalled
    /\ ProviderInstalled
    /\ d_op.model = "gemini-pro"
    /\ d_op.ext.at = "generate"
    /\ d_status = "raised"
    /\ d_result =
         [exception |-> "RuntimeError",
          message |-> <<"Generation failed: ", "429 quota exceeded">>]
    /\ Len(d_calls) = 1

====
